---- MODULE Spec2Model ----
(***************************************************************************)
(* finetune.ipynb: fine-tuning FinBERT for sentiment analysis of financial *)
(* news.  The notebook is a linear workflow of cells; the state is the     *)
(* kernel's namespace (df, df_train, model, trainer, ...), the working     *)
(* directory, and the position of the top-to-bottom run.                   *)
(*                                                                         *)
(* Library calls are modelled by what they do to that state: pandas'       *)
(* read_csv / fillna / rename / replace cell by cell, scikit-learn's       *)
(* train_test_split(stratify=..., test_size=0.1, random_state=42) by the   *)
(* algorithm of StratifiedShuffleSplit, the Trainer by its optimisation    *)
(* steps, its evaluation and what it writes to disk.                       *)
(***************************************************************************)
EXTENDS Integers, Sequences, FiniteSets, TLC

(***************************************************************************)
(* Bounds of the model.                                                    *)
(***************************************************************************)
\* Largest number of well-labelled rows of an input CSV.
MaxRows == 24

\* How many times cell 15 is run again in SpecRerun.
MaxReruns == 1

\* Largest number of samples handed to compute_metrics in SpecMetrics.
MaxSamples == 2

\* Scores (logits) range over 0..MaxScore in SpecMetrics.
MaxScore == 1

(***************************************************************************)
(* Python values held by dataframe cells: an int, a str, or NaN (a missing *)
(* value).  All three are records of one shape, so that any two values     *)
(* can be compared.                                                        *)
(***************************************************************************)
PyInt(n) == [kind |-> "int", i |-> n, s |-> ""]

PyStr(x) == [kind |-> "str", i |-> 0, s |-> x]

NaN == [kind |-> "nan", i |-> 0, s |-> ""]

Min(a, b) == IF a <= b THEN a ELSE b

RECURSIVE SumSeq(_)
SumSeq(q) == IF q = <<>> THEN 0 ELSE Head(q) + SumSeq(Tail(q))

Range(q) == {q[k] : k \in 1..Len(q)}

\* arange(n), one-based: <<1, ..., n>>
arange(n) == [k \in 1..n |-> k]

(***************************************************************************)
(* Cell 8: load all-data.csv and encode the labels.                        *)
(***************************************************************************)
\* The class names, in the order of the to_replace list of cell 8.
to_replace == <<"neutral", "positive", "negative">>

\* value_list with the integers of positive and negative exchanged.
value_list_swapped == <<0, 2, 1>>

\* The integers they are replaced by, in the order of the value list.
value_list == <<0, 1, 2>>

\* The cell texts read_csv turns into NaN (pandas' default NA markers that
\* the input family uses; an empty cell is the empty text).
na_values == {"", "NA"}

\* pd.read_csv(..., header=None) on one cell: a missing value or the text.
read_csv_cell(text) == IF text \in na_values THEN NaN ELSE PyStr(text)

\* The load without .fillna(""): a missing value stays missing.
fillna_skipped(v) == v

\* .fillna("") on one cell.
fillna(v) == IF v.kind = "nan" THEN PyStr("") ELSE v

\* df.rename(columns=lambda x: ["label", "sentence"][x]) on one row: column 0
\* becomes "label", column 1 becomes "sentence".
rename(row) == [label |-> row[1], sentence |-> row[2]]

\* Series.replace(to_replace, value) on one cell: the k-th name is replaced
\* by the k-th integer, any other value is left as it is.
replace(v) ==
    IF \E k \in 1..Len(to_replace) : v = PyStr(to_replace[k])
    THEN PyInt(value_list[CHOOSE k \in 1..Len(to_replace) : v = PyStr(to_replace[k])])
    ELSE v

\* The whole of cell 8 on the rows of the file.
load_and_encode(rows) ==
    [r \in 1..Len(rows) |->
        LET filled == [c \in 1..2 |-> fillna(read_csv_cell(rows[r][c]))]
            named  == rename(filled)
        IN [named EXCEPT !.label = replace(named.label)]]

\* Cell 10: df.isnull().values.any()
isnull_values_any(frame) ==
    \E r \in 1..Len(frame) :
        frame[r].label.kind = "nan" \/ frame[r].sentence.kind = "nan"

(***************************************************************************)
(* numpy's RandomState.  The Mersenne Twister itself is not modelled: the  *)
(* generator here is a linear congruential one, a deterministic function   *)
(* of its seed like the real one, driving the same algorithms (shuffle,    *)
(* permutation, choice) in the same order of draws.                        *)
(***************************************************************************)
rk_random(s) == (75 * s + 74) % 65537

\* rk_interval(max): a draw in 0..max; no draw is made when max = 0.
rk_interval(max, s) ==
    IF max = 0 THEN [val |-> 0, state |-> s]
    ELSE [val |-> rk_random(s) % (max + 1), state |-> rk_random(s)]

\* RandomState.shuffle: for i = n-1 down to 1, swap x[i] with x[j],
\* j drawn in 0..i (positions are one-based here).
RECURSIVE shuffle(_, _, _)
shuffle(arr, i, s) ==
    IF i < 2 THEN [arr |-> arr, state |-> s]
    ELSE LET d == rk_interval(i - 1, s)
             j == d.val + 1
         IN shuffle([arr EXCEPT ![i] = arr[j], ![j] = arr[i]], i - 1, d.state)

\* RandomState.permutation(x): a shuffled copy of x.
permutation(arr, s) == shuffle(arr, Len(arr), s)

\* RandomState.choice(a, size, replace=False): a[permutation(len(a))[:size]]
choice(a, size, s) ==
    LET p == permutation(arange(Len(a)), s)
    IN [arr |-> [k \in 1..size |-> a[p.arr[k]]], state |-> p.state]

(***************************************************************************)
(* Cell 15: train_test_split(df, stratify=df["label"], test_size=0.1,      *)
(* random_state=42), twice.                                                *)
(***************************************************************************)
\* random_state=42
random_state == 42

\* test_size=0.1, as the fraction 1 / test_size_den
test_size_den == 10

\* random_state=None: the RandomState is seeded from the system's entropy.
check_random_state_unseeded(seed) == TRUE

\* check_random_state(42): every call of train_test_split builds a fresh
\* RandomState from the seed it is given.
check_random_state(seed) == seed = random_state

\* int(test_size * n_samples): the size rounded down.
n_test_floor(n_samples) == n_samples \div test_size_den

\* ceil(test_size * n_samples); for every n below 2,000,000 the double
\* product 0.1 * n has the ceiling of n / 10.
n_test_of(n_samples) == (n_samples + test_size_den - 1) \div test_size_den

\* np.unique orders ints by value and strs lexicographically ("" first).
value_rank(v) == IF v.kind = "int" THEN v.i ELSE IF v.s = "" THEN 0 ELSE 1

\* The distinct values of y in np.unique's order.
RECURSIVE sorted_values(_)
sorted_values(S) ==
    IF S = {} THEN <<>>
    ELSE LET m == CHOOSE v \in S : \A w \in S : value_rank(v) <= value_rank(w)
         IN <<m>> \o sorted_values(S \ {m})

\* The distinct numbers of a set, smallest first: the sort without [::-1].
RECURSIVE sorted_asc(_)
sorted_asc(S) ==
    IF S = {} THEN <<>>
    ELSE LET m == CHOOSE v \in S : \A w \in S : v <= w
         IN <<m>> \o sorted_asc(S \ {m})

\* The distinct numbers of a set, largest first: np.sort(np.unique(x))[::-1]
RECURSIVE sorted_desc(_)
sorted_desc(S) ==
    IF S = {} THEN <<>>
    ELSE LET m == CHOOSE v \in S : \A w \in S : v >= w
         IN <<m>> \o sorted_desc(S \ {m})

\* The positions of y holding class c, ascending (a stable argsort).
class_positions(y, c) == SelectSeq(arange(Len(y)), LAMBDA k : y[k] = c)

\* (inds,) = np.where(remainder == value)
with_remainder(remainder, value) ==
    SelectSeq(arange(Len(remainder)), LAMBDA c : remainder[c] = value)

\* inds = rng.choice(inds, size=min(len(inds), need_to_add), replace=False)
picked_classes(remainder, value, need_to_add, s) ==
    choice(with_remainder(remainder, value),
           Min(Len(with_remainder(remainder, value)), need_to_add), s)

\* The loop of _approximate_mode over the remainders, largest first: the
\* classes with that remainder get one more draw each, as many as are still
\* needed, picked by rng.choice.  Remainders are compared as exact
\* fractions (numerators over the common denominator); the double
\* evaluation can tell apart two remainders that are equal as fractions, and
\* then picks in their float order where this picks by rng.choice.
RECURSIVE add_by_remainder(_, _, _, _, _)
add_by_remainder(floored, remainder, values, need_to_add, s) ==
    IF need_to_add = 0 \/ values = <<>>
    THEN [counts |-> floored, state |-> s]
    ELSE add_by_remainder(
             [c \in 1..Len(floored) |->
                 floored[c] +
                 IF c \in Range(picked_classes(remainder, Head(values), need_to_add, s).arr)
                 THEN 1 ELSE 0],
             remainder, Tail(values),
             need_to_add - Min(Len(with_remainder(remainder, Head(values))), need_to_add),
             picked_classes(remainder, Head(values), need_to_add, s).state)

\* _approximate_mode(class_counts, n_draws, rng): n_draws spread over the
\* classes in proportion to class_counts, each share floored, the draws left
\* over handed out by largest remainder.
approximate_mode(class_counts, n_draws, s) ==
    LET total     == SumSeq(class_counts)
        floored   == [c \in 1..Len(class_counts) |->
                         (class_counts[c] * n_draws) \div total]
        remainder == [c \in 1..Len(class_counts) |->
                         (class_counts[c] * n_draws) % total]
        need      == n_draws - SumSeq(floored)
    IN IF need > 0
       THEN add_by_remainder(floored, remainder, sorted_desc(Range(remainder)),
                             need, s)
       ELSE [counts |-> floored, state |-> s]

\* The test slice taken one position early: it shares a row with train.
class_taken_overlap(st, c, p) ==
    [st EXCEPT !.train = @ \o SubSeq(p.arr, 1, st.n_i[c]),
               !.test  = @ \o SubSeq(p.arr, st.n_i[c], st.n_i[c] + st.t_i[c] - 1),
               !.state = p.state]

\* One class of the loop of StratifiedShuffleSplit: of its permuted
\* positions p, the first n_i go to train and the next t_i to test.
class_taken(st, c, p) ==
    [st EXCEPT !.train = @ \o SubSeq(p.arr, 1, st.n_i[c]),
               !.test  = @ \o SubSeq(p.arr, st.n_i[c] + 1, st.n_i[c] + st.t_i[c]),
               !.state = p.state]

\* What split() yields.
split_result(st) == [ok |-> TRUE, train |-> st.train, test |-> st.test]

\* _safe_indexing: the rows of the frame at the positions split() yielded.
safe_indexing(index, sp) ==
    [ok    |-> sp.ok,
     train |-> [k \in 1..Len(sp.train) |-> index[sp.train[k]]],
     test  |-> [k \in 1..Len(sp.test) |-> index[sp.test[k]]]]

\* The three subsets after both calls.
three_way(first, second) ==
    [ok    |-> first.ok /\ second.ok,
     train |-> second.train, val |-> second.test, test |-> first.test]

\* The loop of StratifiedShuffleSplit over the classes: each class's
\* positions are permuted, the first n_i go to train, the next t_i to test.
RECURSIVE take_per_class(_, _)
take_per_class(st, c) ==
    IF c > Len(st.classes) THEN st
    ELSE take_per_class(class_taken(st, c, permutation(class_positions(st.y, st.classes[c]),
                                                       st.state)),
                        c + 1)

\* StratifiedShuffleSplit(test_size=n_test, train_size=n_train,
\* random_state=seed).split(X, y), statement by statement, on the record of
\* its local variables.  First the classes and their sizes ...
split_locals(y, n_train, n_test, seed) ==
    [y |-> y, n_train |-> n_train, n_test |-> n_test, state |-> seed,
     classes |-> sorted_values(Range(y)),
     class_counts |-> [c \in 1..Cardinality(Range(y)) |->
                          Len(class_positions(y, sorted_values(Range(y))[c]))],
     n_i |-> <<>>, t_i |-> <<>>, train |-> <<>>, test |-> <<>>]

\* ... the three checks that raise ValueError, and np.unique's TypeError on
\* labels of mixed types ...
split_raises(y, n_train, n_test) ==
    \/ \E a, b \in Range(y) : a.kind # b.kind
    \/ \E c \in Range(y) : Len(class_positions(y, c)) < 2
    \/ n_train < Cardinality(Range(y))
    \/ n_test < Cardinality(Range(y))

\* ... n_i = _approximate_mode(class_counts, n_train, rng) ...
with_n_i(st, m) == [st EXCEPT !.n_i = m.counts, !.state = m.state]

split_n_i(st) == with_n_i(st, approximate_mode(st.class_counts, st.n_train, st.state))

\* ... t_i = _approximate_mode(class_counts - n_i, n_test, rng) ...
with_t_i(st, m) == [st EXCEPT !.t_i = m.counts, !.state = m.state]

split_t_i(st) ==
    with_t_i(st, approximate_mode([c \in 1..Len(st.classes) |->
                                      st.class_counts[c] - st.n_i[c]],
                                  st.n_test, st.state))

\* ... train = rng.permutation(train) ...
with_train(st, p) == [st EXCEPT !.train = p.arr, !.state = p.state]

split_permute_train(st) == with_train(st, permutation(st.train, st.state))

\* ... test = rng.permutation(test).
with_test(st, p) == [st EXCEPT !.test = p.arr, !.state = p.state]

split_permute_test(st) == with_test(st, permutation(st.test, st.state))

\* The positions of the train rows and of the test rows, or ok = FALSE where
\* the library raises.
stratified_shuffle_split(y, n_train, n_test, seed) ==
    IF split_raises(y, n_train, n_test)
    THEN [ok |-> FALSE, train |-> <<>>, test |-> <<>>]
    ELSE split_result(
             split_permute_test(split_permute_train(
                 take_per_class(split_t_i(split_n_i(
                     split_locals(y, n_train, n_test, seed))), 1))))

\* train_test_split(frame, stratify=y, test_size=0.1, random_state=seed) on
\* a frame given as the sequence of its index values: the index values of
\* the train part and of the test part.  n_test = ceil(0.1 * n_samples),
\* n_train = n_samples - n_test, and ValueError when n_train is 0.
train_test_split(index, y, seed) ==
    IF Len(index) - n_test_of(Len(index)) = 0
    THEN [ok |-> FALSE, train |-> <<>>, test |-> <<>>]
    ELSE safe_indexing(index,
             stratified_shuffle_split(y, Len(index) - n_test_of(Len(index)),
                                      n_test_of(Len(index)), seed))

\* Line 330: df_train into df_train and df_val.
second_split(frame, first, seed) ==
    three_way(first, train_test_split(first.train,
                                      [k \in 1..Len(first.train) |->
                                          frame[first.train[k]].label],
                                      seed))

\* Cell 15, lines 329-330: df into df_train and df_test, then df_train into
\* df_train and df_val.
split_cell(frame, seed) ==
    second_split(frame,
                 train_test_split(arange(Len(frame)),
                                  [k \in 1..Len(frame) |-> frame[k].label], seed),
                 seed)

(***************************************************************************)
(* Cell 13 (lines 680-683): compute_metrics.                               *)
(***************************************************************************)
\* An argmax that keeps the last of the largest scores.
argmax_last(scores) ==
    (CHOOSE k \in 1..Len(scores) :
        /\ \A j \in 1..Len(scores) : scores[j] <= scores[k]
        /\ \A j \in (k + 1)..Len(scores) : scores[j] < scores[k]) - 1

\* np.argmax(scores): the index (0-based) of the largest score, the first
\* one on ties.
argmax(scores) ==
    (CHOOSE k \in 1..Len(scores) :
        /\ \A j \in 1..Len(scores) : scores[j] <= scores[k]
        /\ \A j \in 1..(k - 1) : scores[j] < scores[k]) - 1

\* accuracy_score(predictions, labels): the fraction of positions where the
\* two agree, kept as the pair (number of agreements, number of samples).
accuracy_score(predictions, labels) ==
    [correct |-> Cardinality({k \in 1..Len(labels) : predictions[k] = labels[k]}),
     total   |-> Len(labels)]

\* compute_metrics(eval_pred)["accuracy"]
compute_metrics(eval_pred) ==
    accuracy_score([k \in 1..Len(eval_pred.predictions) |->
                       argmax(eval_pred.predictions[k])],
                   eval_pred.label_ids)

(***************************************************************************)
(* The cells of the notebook, top to bottom.                               *)
(***************************************************************************)
Cells == <<"load_model", "load_data", "null_check", "split", "baseline",
           "tokenize", "configure", "train", "evaluate", "save">>

CellIndex(c) == CHOOSE k \in 1..Len(Cells) : Cells[k] = c

\* An order in which the save cell is run right after the train cell.
NextCell_save_early(c) ==
    IF c = "train" THEN "save"
    ELSE IF CellIndex(c) < Len(Cells) THEN Cells[CellIndex(c) + 1] ELSE "done"

\* Run top to bottom: the cell run after cell c has returned.
NextCell(c) == IF CellIndex(c) < Len(Cells) THEN Cells[CellIndex(c) + 1] ELSE "done"

\* A run that goes on with the next cell after an exception.
on_exception_continue(c) ==
    IF CellIndex(c) < Len(Cells) THEN Cells[CellIndex(c) + 1] ELSE "done"

\* No cell catches an exception: a cell that raises ends the run.
on_exception(c) == "failed"

\* A pipeline that works on its own copy of the model it is given.
pipeline_copy(m) == [built |-> TRUE, shares |-> FALSE, steps |-> m.steps]

\* pipeline("text-classification", model=model, ...): the pipeline keeps the
\* model object it is given (shares: nlp.model is that object; steps: the
\* weights of its own copy where it is not).
pipeline(m) == [built |-> TRUE, shares |-> TRUE, steps |-> m.steps]

\* nlp.model, the model a call of the pipeline p runs, m being the object the
\* name model is bound to.
nlp_model(p, m) == IF p.shares THEN m ELSE [m EXCEPT !.steps = p.steps]

\* per_device_train_batch_size=32
per_device_train_batch_size == 32

\* num_train_epochs=1
num_train_epochs == 1

\* save_strategy = "epoch": a checkpoint at the end of every epoch.
save_strategy_epoch == "epoch"

\* save_strategy = "no"
save_strategy == "no"

\* evaluation_strategy = "epoch"
evaluation_strategy == "epoch"

\* The steps of a dataloader that drops the last, incomplete batch
\* (dataloader_drop_last=True).
total_steps_drop_last(n_rows) ==
    (n_rows \div per_device_train_batch_size) * num_train_epochs

\* len(train_dataloader) * num_train_epochs: the optimisation steps of the run
total_steps(n_rows) ==
    ((n_rows + per_device_train_batch_size - 1) \div per_device_train_batch_size)
        * num_train_epochs

\* Trainer(train_dataset=dataset_train, ...)
trainer_train_dataset(ds) == ds.train

\* A Trainer given the test set to evaluate on at the end of each epoch.
trainer_eval_dataset_test(ds) == ds.test

\* Trainer(eval_dataset=dataset_val, ...)
trainer_eval_dataset(ds) == ds.val

\* The Trainer's RandomSampler: the order in which an epoch visits the
\* training rows (TrainingArguments.seed defaults to 42).
sampler_order(dataset) == permutation(dataset, 42).arr

\* The rows of optimisation step g (1-based) of an epoch.
batch_of(dataset, g) ==
    SubSeq(sampler_order(dataset),
           (g - 1) * per_device_train_batch_size + 1,
           Min(g * per_device_train_batch_size, Len(dataset)))

\* The files trainer.save_model(dir) writes: save_pretrained's configuration
\* and weights, and the trainer's training arguments.
saved_files(dir, steps) ==
    {[path |-> dir \o "config.json", content |-> 0],
     [path |-> dir \o "pytorch_model.bin", content |-> steps],
     [path |-> dir \o "training_args.bin", content |-> 0]}

\* Trainer.__init__ creates args.output_dir ("temp/") when it is built.
output_dir == [path |-> "temp/", content |-> 0]

\* What the trainer writes under output_dir after optimisation step g, the
\* last step of an epoch or not: a checkpoint at every epoch end with
\* save_strategy "epoch", none with save_strategy "no".
checkpoint_files(g, epoch_end, steps) ==
    IF save_strategy = "epoch" /\ epoch_end
    THEN {[path |-> "temp/checkpoint/pytorch_model.bin", content |-> steps]}
    ELSE {}

(***************************************************************************)
(* The input file all-data.csv: rows of two text cells.  The family of     *)
(* inputs: c0 neutral, c1 positive and c2 negative rows, in blocks or      *)
(* interleaved, and optionally one defect.                                 *)
(***************************************************************************)
Layouts == {"blocks", "interleaved"}

Defects == {"none", "label_other", "label_empty", "label_NA", "sentence_empty"}

RECURSIVE interleaved_labels(_, _)
interleaved_labels(counts, turn) ==
    IF SumSeq(counts) = 0 THEN <<>>
    ELSE IF counts[turn] = 0 THEN interleaved_labels(counts, (turn % 3) + 1)
    ELSE <<to_replace[turn]>> \o
         interleaved_labels([counts EXCEPT ![turn] = counts[turn] - 1], (turn % 3) + 1)

block_labels(counts) ==
    [k \in 1..SumSeq(counts) |->
        IF k <= counts[1] THEN to_replace[1]
        ELSE IF k <= counts[1] + counts[2] THEN to_replace[2] ELSE to_replace[3]]

\* Three larger files, whose train subsets take more than one batch of 32:
\* 36 train rows (a full batch and a partial one), 64 (two full batches) and
\* 65 (two full batches and a single row).
LargeInputs == {<<25, 14, 6>>, <<40, 30, 10>>, <<41, 30, 11>>}

csv_rows(counts, layout, defect) ==
    LET labels == IF layout = "blocks" THEN block_labels(counts)
                  ELSE interleaved_labels(counts, 1)
        good   == [k \in 1..Len(labels) |->
                      <<labels[k],
                        IF k = 1 /\ defect = "sentence_empty" THEN "" ELSE "headline">>]
    IN CASE defect = "label_other" -> Append(good, <<"mixed", "headline">>)
         [] defect = "label_empty" -> Append(good, <<"", "headline">>)
         [] defect = "label_NA"    -> Append(good, <<"NA", "headline">>)
         [] OTHER                  -> good

(***************************************************************************)
(* State.                                                                  *)
(***************************************************************************)
VARIABLES
    pc,           \* the cell the run is at, "done" or "failed"
    log,          \* the cells started so far, in order
    failedAt,     \* the cell that raised, "" while none has
    csv,          \* the rows of all-data.csv
    model,        \* the BertForSequenceClassification object bound to the name model
    nlp,          \* the text-classification pipeline of cell 6
    df,           \* the loaded dataframe
    isnull_any,   \* what cell 10 displayed
    df_train, df_val, df_test,   \* the subsets, as sequences of index values of df
    firstSplit,   \* what cell 15 assigned when it was first run
    results,      \* the baseline scoring of cells 17-21
    datasets,     \* dataset_train, dataset_val, dataset_test
    trainer,      \* the Trainer and its progress
    evals,        \* the evaluation and prediction loops run by the trainer
    disk,         \* the files and directories written to the working directory
    eval_pred,    \* the argument of a call of compute_metrics
    metrics       \* what that call returned

vars == <<pc, log, failedAt, csv, model, nlp, df, isnull_any, df_train, df_val, df_test,
          firstSplit, results, datasets, trainer, evals, disk, eval_pred, metrics>>

dataVars == <<csv, df, isnull_any, df_train, df_val, df_test, firstSplit>>

metricVars == <<eval_pred, metrics>>

NoSplit == [train |-> <<>>, val |-> <<>>, test |-> <<>>]

NoMetrics == [correct |-> 0, total |-> 0]

InitKernel ==
    /\ log = <<>>
    /\ failedAt = ""
    /\ model = [loaded |-> FALSE, steps |-> 0]
    /\ nlp = [built |-> FALSE, shares |-> FALSE, steps |-> 0]
    /\ df = <<>>
    /\ isnull_any = FALSE
    /\ df_train = <<>> /\ df_val = <<>> /\ df_test = <<>>
    /\ firstSplit = NoSplit
    /\ results = [of |-> "", data |-> <<>>, steps |-> 0]
    /\ datasets = [tokenized |-> FALSE, train |-> <<>>, val |-> <<>>, test |-> <<>>]
    /\ trainer = [built |-> FALSE, train_dataset |-> <<>>, eval_dataset |-> <<>>,
                  global_step |-> 0, max_steps |-> 0, evaluated |-> 0,
                  consumed |-> <<>>]
    /\ evals = <<>>
    /\ disk = {}

Init ==
    /\ pc = Cells[1]
    /\ \/ \E c0 \in 0..MaxRows : \E c1 \in 0..(MaxRows - c0) :
          \E c2 \in 0..(MaxRows - c0 - c1) :
          \E layout \in Layouts, defect \in Defects :
              csv = csv_rows(<<c0, c1, c2>>, layout, defect)
       \/ \E counts \in LargeInputs : csv = csv_rows(counts, "blocks", "none")
    /\ InitKernel
    /\ eval_pred = [predictions |-> <<>>, label_ids |-> <<>>]
    /\ metrics = NoMetrics

(***************************************************************************)
(* The cells.                                                              *)
(***************************************************************************)
\* Cell 6 (lines 122-134): load FinBERT, build the pipeline nlp around the
\* same model object, classify four demonstration sentences.
LoadModel ==
    /\ pc = "load_model"
    /\ log' = Append(log, pc)
    /\ model' = [loaded |-> TRUE, steps |-> 0]
    /\ nlp' = pipeline(model')
    /\ results' = [of |-> "demo", data |-> <<>>, steps |-> nlp_model(nlp', model').steps]
    /\ pc' = NextCell(pc)
    /\ UNCHANGED <<failedAt, dataVars, datasets, trainer, evals, disk, metricVars>>

\* Cell 8 (lines 230-237): read the CSV, name the columns, encode the labels.
\* read_csv raises EmptyDataError on a file without rows.
LoadData ==
    /\ pc = "load_data"
    /\ csv # <<>>
    /\ log' = Append(log, pc)
    /\ df' = load_and_encode(csv)
    /\ pc' = NextCell(pc)
    /\ UNCHANGED <<failedAt, csv, model, isnull_any, df_train, df_val, df_test,
                   firstSplit, results, datasets, trainer, evals, disk, metricVars, nlp>>

\* Cell 10 (line 264): the missing-value check.
NullCheck ==
    /\ pc = "null_check"
    /\ log' = Append(log, pc)
    /\ isnull_any' = isnull_values_any(df)
    /\ pc' = NextCell(pc)
    /\ UNCHANGED <<failedAt, csv, model, df, df_train, df_val, df_test, firstSplit,
                   results, datasets, trainer, evals, disk, metricVars, nlp>>

\* The seeds a RandomState can be built from.
Seeds == {0, random_state}

\* Cell 15 (lines 329-333): the two splits, both of which returned.
Split ==
    /\ pc = "split"
    /\ \E seed \in Seeds :
        /\ check_random_state(seed)
        /\ \E r \in {split_cell(df, seed)} :
              /\ r.ok
              /\ df_train' = r.train /\ df_val' = r.val /\ df_test' = r.test
              /\ firstSplit' = [train |-> r.train, val |-> r.val, test |-> r.test]
    /\ log' = Append(log, pc)
    /\ pc' = NextCell(pc)
    /\ UNCHANGED <<failedAt, csv, model, df, isnull_any, results, datasets, trainer,
                   evals, disk, metricVars, nlp>>

\* Cell 15 when train_test_split raises (too few rows, a class with a single
\* row, labels of mixed types): line 329 may have assigned df_train and
\* df_test before line 330 raised.
SplitRaises ==
    /\ pc = "split"
    /\ \E seed \in Seeds :
        /\ check_random_state(seed)
        /\ ~split_cell(df, seed).ok
        /\ \E first \in {train_test_split(arange(Len(df)),
                                          [k \in 1..Len(df) |-> df[k].label], seed)} :
              df_train' = first.train /\ df_test' = first.test
    /\ log' = Append(log, pc)
    /\ failedAt' = pc
    /\ pc' = on_exception(pc)
    /\ UNCHANGED <<csv, model, df, isnull_any, df_val, firstSplit, results, datasets,
                   trainer, evals, disk, metricVars, nlp>>

\* Cells 17-21 (lines 349-350, 460-469, 493-495): score sentences with the
\* pipeline nlp and compute the accuracy of the pretrained model.
Baseline ==
    /\ pc = "baseline"
    /\ log' = Append(log, pc)
    /\ results' = [of |-> "df_test", data |-> df_test,
                    steps |-> nlp_model(nlp, model).steps]
    /\ pc' = NextCell(pc)
    /\ UNCHANGED <<failedAt, dataVars, model, datasets, trainer, evals, disk,
                   metricVars, nlp>>

\* Cell 25 (lines 647-657): the three subsets as tokenized torch datasets.
Tokenize ==
    /\ pc = "tokenize"
    /\ log' = Append(log, pc)
    /\ datasets' = [tokenized |-> TRUE, train |-> df_train, val |-> df_val,
                    test |-> df_test]
    /\ pc' = NextCell(pc)
    /\ UNCHANGED <<failedAt, dataVars, model, results, trainer, evals, disk,
                   metricVars, nlp>>

\* Cell 27 (lines 680-705): compute_metrics, the TrainingArguments and the
\* Trainer, which creates its output directory.
Configure ==
    /\ pc = "configure"
    /\ log' = Append(log, pc)
    /\ trainer' = [trainer EXCEPT !.built = TRUE,
                                  !.train_dataset = trainer_train_dataset(datasets),
                                  !.eval_dataset = trainer_eval_dataset(datasets)]
    /\ disk' = disk \cup {output_dir}
    /\ pc' = NextCell(pc)
    /\ UNCHANGED <<failedAt, dataVars, model, results, datasets, evals, metricVars, nlp>>

\* Cell 29 (line 799), trainer.train(): the run is set up ...
TrainBegin ==
    /\ pc = "train"
    /\ log' = Append(log, pc)
    /\ trainer' = [trainer EXCEPT !.max_steps = total_steps(Len(trainer.train_dataset)),
                                  !.global_step = 0, !.evaluated = 0,
                                  !.consumed = <<>>]
    /\ pc' = "train_loop"
    /\ UNCHANGED <<failedAt, dataVars, model, results, datasets, evals, disk,
                   metricVars, nlp>>

\* The optimisation steps of one epoch of the run.
steps_per_epoch == trainer.max_steps \div num_train_epochs

\* ... one optimisation step on the next batch updates the model in place ...
TrainStep ==
    /\ pc = "train_loop"
    /\ trainer.global_step < trainer.max_steps
    /\ trainer.evaluated = trainer.global_step \div steps_per_epoch
    /\ LET g == trainer.global_step + 1
           in_epoch == ((g - 1) % steps_per_epoch) + 1
       IN /\ trainer' = [trainer EXCEPT
                            !.global_step = g,
                            !.consumed = @ \o batch_of(trainer.train_dataset, in_epoch)]
          /\ model' = [model EXCEPT !.steps = @ + 1]
          /\ disk' = disk \cup checkpoint_files(g, FALSE, model.steps + 1)
    /\ UNCHANGED <<pc, log, failedAt, dataVars, results, datasets, evals,
                   metricVars, nlp>>

\* ... at the end of an epoch the evaluation set is evaluated
\* (evaluation_strategy = "epoch"), and a checkpoint saved if asked for ...
TrainEvaluate ==
    /\ pc = "train_loop"
    /\ trainer.global_step > 0
    /\ trainer.global_step % steps_per_epoch = 0
    /\ trainer.evaluated < trainer.global_step \div steps_per_epoch
    /\ trainer' = [trainer EXCEPT !.evaluated = @ + 1]
    /\ evals' = IF evaluation_strategy = "epoch"
                THEN Append(evals, [kind |-> "evaluate", data |-> trainer.eval_dataset,
                                    steps |-> model.steps])
                ELSE evals
    /\ disk' = disk \cup checkpoint_files(trainer.global_step, TRUE, model.steps)
    /\ UNCHANGED <<pc, log, failedAt, dataVars, model, results, datasets,
                   metricVars, nlp>>

\* ... and train() returns after the last epoch (load_best_model_at_end=False:
\* the model keeps the weights of the last step).
TrainEnd ==
    /\ pc = "train_loop"
    /\ trainer.global_step = trainer.max_steps
    /\ trainer.evaluated = num_train_epochs
    /\ pc' = NextCell("train")
    /\ UNCHANGED <<log, failedAt, dataVars, model, results, datasets, trainer, evals,
                   disk, metricVars, nlp>>

\* Cell 31 (lines 845-846): trainer.predict(dataset_test).
Evaluate ==
    /\ pc = "evaluate"
    /\ log' = Append(log, pc)
    /\ evals' = Append(evals, [kind |-> "predict", data |-> datasets.test,
                               steps |-> model.steps])
    /\ pc' = NextCell(pc)
    /\ UNCHANGED <<failedAt, dataVars, model, results, datasets, trainer, disk,
                   metricVars, nlp>>

\* Cell 33 (line 879): trainer.save_model("finbert-sentiment/").
Save ==
    /\ pc = "save"
    /\ log' = Append(log, pc)
    /\ disk' = disk \cup saved_files("finbert-sentiment/", model.steps)
    /\ pc' = NextCell(pc)
    /\ UNCHANGED <<failedAt, dataVars, model, results, datasets, trainer, evals,
                   metricVars, nlp>>

\* A cell raises what the library or the runtime raises (no file, a parser
\* error, out of memory): nothing of the cell is assigned.
Raise ==
    /\ pc \in Range(Cells) \ {"split", "save"}
    /\ log' = Append(log, pc)
    /\ failedAt' = pc
    /\ pc' = on_exception(pc)
    /\ UNCHANGED <<dataVars, model, results, datasets, trainer, evals, disk,
                   metricVars, nlp>>

\* trainer.train() raises in the middle of the run: the steps already taken
\* have changed the model.
TrainRaises ==
    /\ pc = "train_loop"
    /\ failedAt' = "train"
    /\ pc' = on_exception("train")
    /\ UNCHANGED <<log, dataVars, model, results, datasets, trainer, evals, disk,
                   metricVars, nlp>>

\* save_model raises: the configuration, written first, may be on disk.
SaveRaises ==
    /\ pc = "save"
    /\ log' = Append(log, pc)
    /\ failedAt' = pc
    /\ \E written \in {{}, {[path |-> "finbert-sentiment/config.json", content |-> 0]}} :
          disk' = disk \cup written
    /\ pc' = on_exception(pc)
    /\ UNCHANGED <<dataVars, model, results, datasets, trainer, evals, metricVars, nlp>>

Next ==
    \/ LoadModel \/ LoadData \/ NullCheck \/ Split \/ SplitRaises \/ Baseline
    \/ Tokenize \/ Configure \/ TrainBegin \/ TrainStep \/ TrainEvaluate \/ TrainEnd
    \/ Evaluate \/ Save \/ Raise \/ TrainRaises \/ SaveRaises

\* The notebook run top to bottom, once.
Spec == Init /\ [][Next]_vars

(***************************************************************************)
(* Cell 15 run again on the same loaded dataframe, before the next cell.   *)
(***************************************************************************)
Count(q, x) == Cardinality({k \in 1..Len(q) : q[k] = x})

RerunSplit ==
    /\ pc = NextCell("split")
    /\ Count(log, "split") <= MaxReruns
    /\ \E seed \in Seeds :
        /\ check_random_state(seed)
        /\ \E r \in {split_cell(df, seed)} :
              /\ r.ok
              /\ df_train' = r.train /\ df_val' = r.val /\ df_test' = r.test
    /\ log' = Append(log, "split")
    /\ UNCHANGED <<pc, failedAt, csv, model, df, isnull_any, firstSplit, results,
                   datasets, trainer, evals, disk, metricVars, nlp>>

NextRerun == Next \/ RerunSplit

SpecRerun == Init /\ [][NextRerun]_vars

(***************************************************************************)
(* A cell that calls nlp again, run after trainer.train() has returned.    *)
(***************************************************************************)
NlpAfterTraining ==
    /\ pc \in {"evaluate", "save", "done"}
    /\ results.of # "after_train"
    /\ log' = Append(log, "nlp_after_train")
    /\ results' = [of |-> "after_train", data |-> df_test,
                    steps |-> nlp_model(nlp, model).steps]
    /\ UNCHANGED <<pc, failedAt, dataVars, model, nlp, datasets, trainer, evals, disk,
                   metricVars>>

NextNlp == Next \/ NlpAfterTraining

SpecNlp == Init /\ [][NextNlp]_vars

(***************************************************************************)
(* compute_metrics on its own: any scores and labels of up to MaxSamples   *)
(* samples, as the trainer hands them over after an evaluation loop.       *)
(***************************************************************************)
InitMetrics ==
    /\ pc = "compute_metrics"
    /\ csv = <<>>
    /\ InitKernel
    /\ \E n \in 1..MaxSamples :
        \E predictions \in [1..n -> [1..3 -> 0..MaxScore]], label_ids \in [1..n -> 0..2] :
            eval_pred = [predictions |-> predictions, label_ids |-> label_ids]
    /\ metrics = NoMetrics

ComputeMetrics ==
    /\ pc = "compute_metrics"
    /\ metrics' = compute_metrics(eval_pred)
    /\ pc' = "returned"
    /\ UNCHANGED <<log, failedAt, dataVars, model, results, datasets, trainer, evals,
                   disk, eval_pred, nlp>>

SpecMetrics == InitMetrics /\ [][ComputeMetrics]_vars

(***************************************************************************)
(* Properties.                                                             *)
(***************************************************************************)
\* Cell c has been run and has returned.
Returned(c) == Count(log, c) > 0 /\ failedAt # c

Labels(rows) == {df[rows[k]].label : k \in 1..Len(rows)}

\* The number of rows of a subset that hold label v.
CountLabel(rows, v) == Cardinality({k \in 1..Len(rows) : df[rows[k]].label = v})

\* C1: once cell 15 has returned, df_train, df_val and df_test partition the
\* rows of df: they are pairwise disjoint, every row of df is in one of them,
\* and their sizes add up to the number of rows loaded.
C1_SplitPartitions ==
    Returned("split") =>
        /\ Range(df_train) \cap Range(df_val) = {}
        /\ Range(df_train) \cap Range(df_test) = {}
        /\ Range(df_val) \cap Range(df_test) = {}
        /\ Range(df_train) \cup Range(df_val) \cup Range(df_test) = 1..Len(df)
        /\ Len(df_train) + Len(df_val) + Len(df_test) = Len(df)

C1_Witness ==
    /\ Returned("split")
    /\ Len(df) = MaxRows
    /\ Cardinality(Labels(arange(Len(df)))) = 3
    /\ Len(df_val) >= 3

ClassNames == {"neutral", "positive", "negative"}

\* The encoding the notebook announces: neutral 0, positive 1, negative 2.
Announced(name) == IF name = "neutral" THEN 0 ELSE IF name = "positive" THEN 1 ELSE 2

\* C2: the label encoding maps neutral to 0, positive to 1 and negative to 2,
\* in every row loaded, and is a bijection between the three class names and
\* 0..2: distinct names get distinct integers and each of 0, 1, 2 is the
\* image of exactly one name.
C2_EncodingBijection ==
    Returned("load_data") =>
        /\ \A r \in 1..Len(df) :
              csv[r][1] \in ClassNames => df[r].label = PyInt(Announced(csv[r][1]))
        /\ \A a, b \in ClassNames :
              replace(PyStr(a)) = replace(PyStr(b)) => a = b
        /\ \A n \in 0..2 :
              Cardinality({a \in ClassNames : replace(PyStr(a)) = PyInt(n)}) = 1

C2_Witness ==
    /\ Returned("load_data")
    /\ {csv[r][1] : r \in 1..Len(csv)} = ClassNames
    /\ {df[r].label : r \in 1..Len(df)} = {PyInt(0), PyInt(1), PyInt(2)}

\* C3: after cell 8 every row's label is one of the integers 0, 1, 2, whatever
\* the label cells of the CSV hold.
C3_LabelsInClassSet ==
    Returned("load_data") =>
        \A r \in 1..Len(df) : df[r].label \in {PyInt(0), PyInt(1), PyInt(2)}

\* C4: after cell 8 no cell of df is a missing value, whatever the CSV holds,
\* and the missing-value check of cell 10 displays False.
C4_NoNulls ==
    /\ Returned("load_data") =>
          \A r \in 1..Len(df) : df[r].label # NaN /\ df[r].sentence # NaN
    /\ Returned("null_check") => isnull_any = FALSE

C4_Witness ==
    /\ Returned("null_check")
    /\ \E r \in 1..Len(csv) : csv[r][1] \in na_values \/ csv[r][2] \in na_values

WithinOneRow(a, b, x, y) == a * y - b * x < y /\ b * x - a * y < y

\* C6: each subset keeps the class proportions of the set it was split from,
\* to within one row: the test subset those of df, the validation and the
\* train subset those of the first split's train part (their union).
C6_Stratified ==
    Returned("split") =>
        \A v \in Labels(arange(Len(df))) :
            /\ WithinOneRow(CountLabel(df_test, v), Len(df_test),
                            CountLabel(arange(Len(df)), v), Len(df))
            /\ WithinOneRow(CountLabel(df_val, v), Len(df_val),
                            CountLabel(df_train \o df_val, v), Len(df_train \o df_val))
            /\ WithinOneRow(CountLabel(df_train, v), Len(df_train),
                            CountLabel(df_train \o df_val, v), Len(df_train \o df_val))

C6_Witness ==
    /\ Returned("split")
    /\ Cardinality(Labels(arange(Len(df)))) = 3
    /\ \E v \in Labels(arange(Len(df))) :
          (CountLabel(arange(Len(df)), v) * Len(df_test)) % Len(df) # 0

\* The class predicted for a sample: the lowest index holding the largest score.
Predicted(scores) ==
    CHOOSE c \in 0..2 :
        /\ \A j \in 0..2 : scores[j + 1] <= scores[c + 1]
        /\ \A j \in 0..2 : scores[j + 1] = scores[c + 1] => c <= j

Hits(ep) ==
    {k \in 1..Len(ep.label_ids) : Predicted(ep.predictions[k]) = ep.label_ids[k]}

Reordered(ep, p) ==
    [predictions |-> [k \in 1..Len(ep.label_ids) |-> ep.predictions[p[k]]],
     label_ids   |-> [k \in 1..Len(ep.label_ids) |-> ep.label_ids[p[k]]]]

\* C7: the accuracy compute_metrics returns is the number of samples whose
\* predicted class (lowest index of the largest score) equals the label, over
\* the number of samples: between 0 and 1, 1 exactly when every sample is
\* predicted right, and the same for every order of the samples.
C7_Accuracy ==
    pc = "returned" =>
        /\ metrics.total = Len(eval_pred.label_ids) /\ metrics.total > 0
        /\ metrics.correct = Cardinality(Hits(eval_pred))
        /\ 0 <= metrics.correct /\ metrics.correct <= metrics.total
        /\ metrics.correct = metrics.total <=>
              \A k \in 1..Len(eval_pred.label_ids) : k \in Hits(eval_pred)
        /\ \A p \in Permutations(1..Len(eval_pred.label_ids)) :
              compute_metrics(Reordered(eval_pred, p)) = metrics

C7_Witness ==
    /\ pc = "returned"
    /\ metrics.correct > 0 /\ metrics.correct < metrics.total
    /\ \E k \in Hits(eval_pred) :
          eval_pred.predictions[k][1] = eval_pred.predictions[k][2]

\* The steps the workflow is made of, in their order.
Workflow == <<"load_model", "load_data", "split", "tokenize", "configure",
              "train", "evaluate", "save">>

IsPrefix(p, q) == Len(p) <= Len(q) /\ \A k \in 1..Len(p) : p[k] = q[k]

StepsRun == SelectSeq(log, LAMBDA c : c \in Range(Workflow))

\* C8: the steps started so far are the first steps of the workflow, each
\* once and in its order; a run that ends has run them all; and the model is
\* saved only after training has taken its last step and the test set has
\* been predicted.
C8_FixedOrder ==
    /\ IsPrefix(StepsRun, Workflow)
    /\ pc = "done" => StepsRun = Workflow
    /\ Count(log, "save") > 0 =>
          /\ trainer.max_steps > 0 /\ trainer.global_step = trainer.max_steps
          /\ \E k \in 1..Len(evals) : evals[k].kind = "predict"

C8_Witness == pc = "done" /\ Len(df) = MaxRows

SavedPaths == {f.path : f \in saved_files("finbert-sentiment/", 0)}

\* C9: once a cell has raised, the run has stopped there: the cell that
\* raised is the last one started and was started once, and unless it is the
\* save step itself nothing of finbert-sentiment/ is on disk.
C9_FailureStops ==
    failedAt # "" =>
        /\ pc = "failed"
        /\ log[Len(log)] = failedAt
        /\ Count(log, failedAt) = 1
        /\ failedAt # "save" => \A f \in disk : f.path \notin SavedPaths

C9_Witness == failedAt = "train" /\ model.steps > 0 /\ pc = "failed"

\* C10 as stated: nothing but the contents of finbert-sentiment/ is ever
\* written to the working directory.
C10_OnlyModelDirectory == \A f \in disk : f.path \in SavedPaths

\* C10, amended: besides the empty output directory temp/ the Trainer creates
\* when it is built, the only things written are the files of
\* finbert-sentiment/, by the save step and by nothing before it; no
\* checkpoint is written during training or evaluation; and the weights saved
\* are those the model holds when training has taken its last step.
C10_SavedOnceAfterTraining ==
    /\ \A f \in disk : f = output_dir \/ f.path \in SavedPaths
    /\ (\E f \in disk : f.path \in SavedPaths) => Count(log, "save") = 1
    /\ Returned("save") =>
          /\ disk = {output_dir} \cup saved_files("finbert-sentiment/", trainer.max_steps)
          /\ model.steps = trainer.max_steps /\ trainer.max_steps > 0

C10_Witness == pc = "done" /\ Returned("save") /\ model.steps > 0

\* C11: the baseline of the pretrained model (cells 17-21) is computed on the
\* validation subset: the rows it scored are the rows of df_val.
C11_BaselineOnValidation ==
    Returned("baseline") =>
        /\ results.of = "df_val"
        /\ Range(results.data) = Range(df_val)

\* The least q with q * b >= a: a / b rounded up.
CeilDiv(a, b) == CHOOSE q \in 0..a : q * b >= a /\ (q - 1) * b < a

\* C12: once cell 15 has returned on N rows, test holds ceil(N / 10) rows,
\* validation ceil((N - test) / 10) and train the rest; the sizes the code
\* computes for N = 4846 are 485, 437 and 3924.
C12_SplitSizes ==
    Returned("split") =>
        /\ Len(df_test) = CeilDiv(Len(df), 10)
        /\ Len(df_val) = CeilDiv(Len(df) - Len(df_test), 10)
        /\ Len(df_train) = Len(df) - Len(df_test) - Len(df_val)
        /\ n_test_of(4846) = 485
        /\ n_test_of(4846 - n_test_of(4846)) = 437
        /\ 4846 - n_test_of(4846) - n_test_of(4846 - n_test_of(4846)) = 3924

C12_Witness ==
    /\ Returned("split")
    /\ Len(df) > 2 * per_device_train_batch_size
    /\ Len(df) % 10 # 0
    /\ (Len(df) - Len(df_test)) % 10 # 0

\* trainer.train() has returned.
Trained == Returned("train") /\ pc \notin {"train", "train_loop"}

\* The evaluation loops the trainer ran during training.
EpochEvals == SelectSeq(evals, LAMBDA e : e.kind = "evaluate")

\* What is left of the run of trainer.train(): optimisation steps and
\* end-of-epoch evaluations.
Remaining ==
    (trainer.max_steps - trainer.global_step) + (num_train_epochs - trainer.evaluated)

C13_OneEpochInv ==
    /\ trainer.global_step <= trainer.max_steps
    /\ Remaining >= 0
    /\ Cardinality(Range(trainer.consumed)) = Len(trainer.consumed)
    /\ Len(EpochEvals) <= 1
    /\ \A k \in 1..Len(EpochEvals) :
          /\ EpochEvals[k].steps = trainer.max_steps
          /\ EpochEvals[k].data = df_val
          /\ trainer.global_step = trainer.max_steps
    /\ Trained =>
          /\ trainer.global_step = CeilDiv(Len(df_train), 32)
          /\ model.steps = trainer.global_step
          /\ Len(trainer.consumed) = Len(df_train)
          /\ Range(trainer.consumed) = Range(df_train)
          /\ Len(EpochEvals) = 1
          /\ total_steps(3924) = 123

\* C13: training is one epoch over the train subset: every train row is
\* consumed exactly once, in ceil(|train| / 32) optimisation steps (123 for
\* 3924 rows); the validation subset is evaluated exactly once, after the
\* last optimisation step; and every step of trainer.train() brings its end
\* nearer, so that it ends after at most that many steps and one evaluation.
C13_OneEpoch ==
    /\ []C13_OneEpochInv
    /\ [][pc = "train_loop" /\ pc' = "train_loop" => Remaining' < Remaining]_vars

C13_Witness ==
    /\ pc = "done"
    /\ trainer.global_step = 3
    /\ Len(trainer.consumed) = 65
    /\ Len(EpochEvals) = 1

\* Some row of the sequence is a row of the test subset.
TouchesTest(rows) == Range(rows) \cap Range(df_test) # {}

\* C14: the test subset is held out.  No optimisation step consumes a test
\* row and no evaluation during training reads one: the trainer's training
\* set is the train subset, its evaluation set the validation subset.  A test
\* row is read only by the baseline scoring and by the trainer.predict that
\* follows training.
C14_TestHeldOut ==
    /\ ~TouchesTest(trainer.consumed)
    /\ Range(trainer.consumed) \subseteq Range(df_train)
    /\ trainer.built =>
          /\ trainer.train_dataset = df_train /\ ~TouchesTest(trainer.train_dataset)
          /\ trainer.eval_dataset = df_val /\ ~TouchesTest(trainer.eval_dataset)
    /\ \A k \in 1..Len(evals) :
          /\ evals[k].kind = "evaluate" =>
                evals[k].data = df_val /\ ~TouchesTest(evals[k].data)
          /\ TouchesTest(evals[k].data) =>
                /\ evals[k].kind = "predict"
                /\ evals[k].data = df_test
                /\ Trained /\ evals[k].steps = trainer.max_steps
    /\ TouchesTest(results.data) => results.of = "df_test" /\ results.steps = 0

C14_Witness ==
    /\ pc = "done"
    /\ Len(df_test) >= 3
    /\ Len(trainer.consumed) > per_device_train_batch_size
    /\ TouchesTest(results.data)
    /\ \E k \in 1..Len(evals) : evals[k].kind = "evaluate"
    /\ \E k \in 1..Len(evals) : evals[k].kind = "predict" /\ evals[k].data = df_test

\* The weights (as the number of optimisation steps behind them) that a call
\* of nlp runs on.
NlpWeights == nlp_model(nlp, model).steps

C15_SharedModelInv ==
    /\ nlp.built => NlpWeights = model.steps
    /\ results.of = "df_test" => results.steps = 0
    /\ Returned("baseline") /\ results.of = "df_test" /\ model.steps > 0 =>
          results.steps < NlpWeights
    /\ results.of = "after_train" =>
          /\ results.steps = trainer.max_steps
          /\ results.steps > 0

====
